---------------------------- MODULE Spec2Model ----------------------------
(***************************************************************************)
(* A model of hf_kyc_space/app.py: a Flask service that exposes an OCR     *)
(* reader, a YOLO detector and DeepFace verification over three POST       *)
(* routes.                                                                 *)
(*                                                                         *)
(* Four specifications share the module:                                   *)
(*   SpecDecode  decode_image as a function of its input                   *)
(*   SpecCrop    crop_card as a function of the image and detector boxes   *)
(*   SpecTag     the object-tagging loop of shop_verify                    *)
(*   Spec        start-up and the request handlers, run by concurrent      *)
(*               request threads (app.run serves threaded)                 *)
(***************************************************************************)
EXTENDS Integers, Sequences, FiniteSets, TLC

VARIABLES
    dIn, dPc, dOut, dPayload,          \* decode_image: input, position, outcome, base64 payload
    cImg, cBoxes, cPc, cBest, cRect, cOut,  \* crop_card: image, boxes, position, best_box, rectangle, result
    tDets, tPc, tOut,                  \* tagging loop: detections, position, detected_objects
    phase, loads, faceModel,           \* process: start-up phase, load counts, DeepFace model cache
    req, yoloScratch, ocrScratch       \* request threads and the shared model handles

decodeVars == <<dIn, dPc, dOut, dPayload>>
cropVars   == <<cImg, cBoxes, cPc, cBest, cRect, cOut>>
tagVars    == <<tDets, tPc, tOut>>
serverVars == <<phase, loads, faceModel, req, yoloScratch, ocrScratch>>
vars       == <<decodeVars, cropVars, tagVars, serverVars>>

Max(a, b) == IF a >= b THEN a ELSE b
Min(a, b) == IF a <= b THEN a ELSE b

(***************************************************************************)
(* Values.  A request field or a decode_image argument is a tagged value:  *)
(*   absent   the key is not in the JSON object (dict.get gives None)      *)
(*   text     a Python str, a sequence of characters                       *)
(*   bytes    a Python bytes object                                        *)
(*   number   any other JSON value that is truthy (a non-zero number)      *)
(* Characters: "I" and "x" are characters of the base64 alphabet ("I"      *)
(* stands for the bits of an image signature, "x" for any other bits),     *)
(* "=" is the pad, "," the comma, "#" any character outside the alphabet.  *)
(***************************************************************************)
Alphabet == {"I", "x"}
Chars    == Alphabet \cup {"=", ",", "#"}

Absent       == [kind |-> "absent", s |-> <<>>]
Text(s)      == [kind |-> "text",   s |-> s]
Bytes(s)     == [kind |-> "bytes",  s |-> s]
Number       == [kind |-> "number", s |-> <<>>]

\* Outcomes of a call: a returned value or a raised exception.
Raise(e)     == [kind |-> "raise", err |-> e, h |-> 0, w |-> 0, channels |-> 0]
NoneValue    == [kind |-> "none",  err |-> "", h |-> 0, w |-> 0, channels |-> 0]
Grid(h, w)   == [kind |-> "grid",  err |-> "", h |-> h, w |-> w, channels |-> 3]

(***************************************************************************)
(* decode_image (app.py 34-50)                                             *)
(***************************************************************************)
\* "," in image_input
HasComma(s) == \E i \in 1..Len(s) : s[i] = ","

\* Index of the first comma at or after position i, or Len(s)+1.
RECURSIVE NextComma(_, _)
NextComma(s, i) ==
    IF i > Len(s) THEN Len(s) + 1
    ELSE IF s[i] = "," THEN i
    ELSE NextComma(s, i + 1)

\* image_input.split(",")[1]: the piece between the first comma and the
\* second one (or the end of the string).
SplitSecond(s) ==
    LET c1 == NextComma(s, 1)
        c2 == NextComma(s, c1 + 1)
    IN  SubSeq(s, c1 + 1, c2 - 1)

\* base64.b64decode(s) with validate=False (binascii.a2b_base64, non-strict):
\* characters outside the alphabet are skipped, a pad that completes a quad
\* ends the input, and leftover data characters are an error.  The decoded
\* bytes are represented by the data characters that carried them.
RECURSIVE B64Scan(_, _, _, _, _)
B64Scan(s, i, quad, pads, acc) ==
    IF i > Len(s)
    THEN IF quad = 0 THEN [ok |-> TRUE, bytes |-> acc]
         ELSE [ok |-> FALSE, bytes |-> <<>>]
    ELSE IF s[i] = "="
    THEN IF quad >= 2 /\ quad + pads + 1 >= 4
         THEN [ok |-> TRUE, bytes |-> acc]
         ELSE B64Scan(s, i + 1, quad, pads + 1, acc)
    ELSE IF s[i] \notin Alphabet
    THEN B64Scan(s, i + 1, quad, pads, acc)
    ELSE B64Scan(s, i + 1, (quad + 1) % 4, 0, Append(acc, s[i]))

B64Decode(s) == B64Scan(s, 1, 0, 0, <<>>)

\* cv2.imdecode(np.frombuffer(b), IMREAD_COLOR): an empty buffer raises
\* cv2.error; a buffer that opens with the signature and has a body decodes
\* to a 3-channel grid; anything else (no signature, or a signature with the
\* body cut off) gives None without raising.
ImDecode(b) ==
    IF Len(b) = 0 THEN Raise("cv2.error")
    ELSE IF b[1] = "I" /\ Len(b) >= 2 THEN Grid(Len(b) - 1, Len(b) - 1)
    ELSE NoneValue

\* The string handed to base64.b64decode (lines 38-42), for a text input.
Payload(v) == IF HasComma(v.s) THEN SplitSecond(v.s) ELSE v.s

\* decode_image: every exception inside the try becomes ValueError
\* "Invalid image input: ..." (line 50); a None from cv2.imdecode is returned
\* as it is (line 48).
decode_image(v) ==
    IF v.kind = "text"
    THEN LET d == B64Decode(Payload(v))
         IN  IF ~d.ok THEN Raise("Invalid image input")
             ELSE LET img == ImDecode(d.bytes)
                  IN  IF img.kind = "raise" THEN Raise("Invalid image input") ELSE img
    ELSE IF v.kind = "bytes"
    THEN LET img == ImDecode(v.s)
         IN  IF img.kind = "raise" THEN Raise("Invalid image input") ELSE img
    ELSE \* np.frombuffer of a value without the buffer protocol: TypeError
         Raise("Invalid image input")

MaxTextLen == 5

RECURSIVE SeqsUpTo(_, _)
SeqsUpTo(S, n) ==
    IF n = 0 THEN {<<>>}
    ELSE LET shorter == SeqsUpTo(S, n - 1)
         IN  shorter \cup {Append(s, c) : s \in {t \in shorter : Len(t) = n - 1}, c \in S}

DecodeInputs ==
    {Text(s) : s \in SeqsUpTo(Chars, MaxTextLen)}
    \cup {Bytes(s) : s \in SeqsUpTo(Alphabet, MaxTextLen)}
    \cup {Number}

NoStr == <<"-">>

DecodeCall ==
    /\ dPc = "call"
    /\ dOut' = decode_image(dIn)
    /\ dPayload' = IF dIn.kind = "text" THEN Payload(dIn) ELSE NoStr
    /\ dPc' = "done"
    /\ UNCHANGED <<dIn, cropVars, tagVars, serverVars>>

(***************************************************************************)
(* crop_card (app.py 52-74)                                                *)
(*                                                                         *)
(* The detector's xyxy values are floats; they are kept in half pixels, so *)
(* that int() (line 63) is a real truncation.  Image sizes, the margin and *)
(* the rectangle are in whole pixels.                                      *)
(***************************************************************************)
Margin == 10

\* int(x) of a float held in half pixels: truncation toward zero.
Trunc(v) == IF v >= 0 THEN v \div 2 ELSE -((-v) \div 2)

\* area = (x2 - x1) * (y2 - y1), on the float values (line 60)
Area(b) == (b.x2 - b.x1) * (b.y2 - b.y1)

\* best_box = (int(x1), int(y1), int(x2), int(y2))
IntBox(b) == [x1 |-> Trunc(b.x1), y1 |-> Trunc(b.y1), x2 |-> Trunc(b.x2), y2 |-> Trunc(b.y2)]

\* The loop of lines 54-63 from box i on: best is <<>> for None, or <<i>>, the
\* index of the box best_box was taken from.
RECURSIVE BestScan(_, _, _, _)
BestScan(boxes, i, max_area, best) ==
    IF i > Len(boxes) THEN best
    ELSE IF Area(boxes[i]) > max_area
    THEN BestScan(boxes, i + 1, Area(boxes[i]), <<i>>)
    ELSE BestScan(boxes, i + 1, max_area, best)

\* The same loop with the update of max_area left out.
RECURSIVE BestScanNoUpdate(_, _, _)
BestScanNoUpdate(boxes, i, best) ==
    IF i > Len(boxes) THEN best
    ELSE IF Area(boxes[i]) > 0
    THEN BestScanNoUpdate(boxes, i + 1, <<i>>)
    ELSE BestScanNoUpdate(boxes, i + 1, best)

BestBoxNoUpdate(boxes) == BestScanNoUpdate(boxes, 1, <<>>)
BestBox(boxes) == BestScan(boxes, 1, 0, <<>>)

\* Lines 66-71 without the upper clamp.
ClampRectNoMin(b, w, h) ==
    [x1 |-> Max(0, b.x1 - Margin), y1 |-> Max(0, b.y1 - Margin),
     x2 |-> b.x2 + Margin,         y2 |-> b.y2 + Margin]
\* Lines 66-71: the margin and the clamps.
ClampRect(b, w, h) ==
    [x1 |-> Max(0, b.x1 - Margin), y1 |-> Max(0, b.y1 - Margin),
     x2 |-> Min(w, b.x2 + Margin), y2 |-> Min(h, b.y2 + Margin)]

\* A Python slice lo:hi of an axis of length n, as (start, stop): negative
\* indices count from the end, and both ends are clipped to 0..n.
PyIndex(i, n) == IF i < 0 THEN Max(0, i + n) ELSE Min(i, n)
PySlice(lo, hi, n) ==
    LET a == PyIndex(lo, n)
        b == PyIndex(hi, n)
    IN  [start |-> a, stop |-> Max(a, b)]

\* A sub-grid of the image: its origin in the image and its size.
Whole(img) == [x |-> 0, y |-> 0, w |-> img.w, h |-> img.h]
\* image[y1:y2, x1:x2] (line 72)
SubGrid(img, r) ==
    LET sx == PySlice(r.x1, r.x2, img.w)
        sy == PySlice(r.y1, r.y2, img.h)
    IN  [x |-> sx.start, y |-> sy.start, w |-> sx.stop - sx.start, h |-> sy.stop - sy.start]

\* crop_card after the detector has returned boxes for image.
crop_card(img, boxes) ==
    LET best == BestBox(boxes)
    IN  IF best = <<>>
        THEN [best |-> <<>>, rect |-> <<>>, out |-> Whole(img)]
        ELSE LET r == ClampRect(IntBox(boxes[best[1]]), img.w, img.h)
             IN  [best |-> best, rect |-> <<r>>, out |-> SubGrid(img, r)]

MaxBoxes == 2

\* Image sides in pixels, and the detector's coordinates in half pixels
\* (5.5, 11 and 22.5 pixels among them).
ImgDims         == {6, 12, 24}
HalfPixelCoords == {0, 11, 22, 45}

\* The detector returns boxes with x1 < x2, y1 < y2, clipped to the image
\* (the Bounding Box of the data model; Ultralytics clips xyxy to the
\* original image shape).
BoxesOf(img) ==
    {bx \in [x1 : HalfPixelCoords, y1 : HalfPixelCoords, x2 : HalfPixelCoords, y2 : HalfPixelCoords] :
        /\ bx.x1 < bx.x2 /\ bx.x2 <= 2 * img.w
        /\ bx.y1 < bx.y2 /\ bx.y2 <= 2 * img.h}

CropCall ==
    /\ cPc = "call"
    /\ LET res == crop_card(cImg, cBoxes)
       IN  /\ cBest' = res.best
           /\ cRect' = res.rect
           /\ cOut'  = res.out
    /\ cPc' = "done"
    /\ UNCHANGED <<cImg, cBoxes, decodeVars, tagVars, serverVars>>

(***************************************************************************)
(* The tagging loop of shop_verify (app.py 145-152, 158)                   *)
(*                                                                         *)
(* A detection is a class id and a confidence; confidences are kept in     *)
(* hundredths, so that 0.4 is 40.                                          *)
(***************************************************************************)
ConfThreshold == 40

ClassIds    == {0, 56}
\* yolo_model.names[cls_id]
ClassName(c) == IF c = 0 THEN "person" ELSE "chair"
Labels      == {ClassName(c) : c \in ClassIds}

\* if conf >= 0.4
KeepsAtThreshold(conf) == conf >= ConfThreshold
\* if conf > 0.4 (line 151)
Keeps(conf) == conf > ConfThreshold

\* detected_objects after the loop over the boxes from i on (lines 145-152)
RECURSIVE TagLoop(_, _, _)
TagLoop(dets, i, detected_objects) ==
    IF i > Len(dets) THEN detected_objects
    ELSE IF Keeps(dets[i].conf)
    THEN TagLoop(dets, i + 1, Append(detected_objects, ClassName(dets[i].cls)))
    ELSE TagLoop(dets, i + 1, detected_objects)

ListToSet(s) == {s[i] : i \in DOMAIN s}

\* list(set(xs)): the elements of xs once each, in an order the hash decides
ListOfSet(xs) ==
    LET S == ListToSet(xs)
    IN  {o \in [1..Cardinality(S) -> S] : ListToSet(o) = S}

MaxDets == 3
ConfChoices == {0, 39, 40, 41, 100}
Detections  == [cls : ClassIds, conf : ConfChoices]

TagCall ==
    /\ tPc = "call"
    /\ tOut' \in ListOfSet(TagLoop(tDets, 1, <<>>))
    /\ tPc' = "done"
    /\ UNCHANGED <<tDets, decodeVars, cropVars, serverVars>>

(***************************************************************************)
(* The process: start-up (app.py 17-30, 164-166) and the request handlers  *)
(* (82-162).                                                               *)
(*                                                                         *)
(* app.run serves each request on a thread of its own, so handlers         *)
(* interleave at their calls into the shared model handles.  A model call  *)
(* is entered (the handle's per-call scratch is set for the caller) and    *)
(* later left (the result is read back from the scratch); nothing in       *)
(* app.py holds a lock around it.  What a model answers is outside app.py: *)
(* every call either returns or raises.                                    *)
(***************************************************************************)
Threads     == {1, 2}
MaxRequests == 3

Routes == {"/verify-cnic", "/face-verify", "/shop-verify"}

\* Field values a request can carry: no key, an empty string, a base64 text
\* of an image, a text with a data character left over, a base64 text of
\* bytes that are no image.
GoodText     == Text(<<"I", "x", "x", "x">>)
BadPadText   == Text(<<"I">>)
NotImageText == Text(<<"x", "x", "x", "x">>)
FieldChoices == {Absent, Text(<<>>), GoodText, BadPadText, NotImageText}

\* What the detector may report for a shop image: nothing, or a person above
\* the threshold and a chair at it.
HandlerDets == {<<>>, <<[cls |-> 0, conf |-> 41], [cls |-> 56, conf |-> 40]>>}

\* request.json: json is FALSE when the body is no JSON object (request.json
\* raises, or data.get does).
NoBody == [json |-> FALSE, image |-> Absent, image1 |-> Absent, image2 |-> Absent]
BodiesOf(route) ==
    {NoBody} \cup
    IF route = "/face-verify"
    THEN {[json |-> TRUE, image |-> Absent, image1 |-> a, image2 |-> b] :
             a \in FieldChoices, b \in FieldChoices}
    ELSE {[json |-> TRUE, image |-> a, image1 |-> Absent, image2 |-> Absent] :
             a \in FieldChoices}

Idle ==
    [route |-> "none", body |-> NoBody, pc |-> "idle", img |-> "-", img2 |-> "-",
     status |-> 0, payload |-> "-", err |-> "-", responses |-> 0,
     decodes |-> 0, invoked |-> {}, detOf |-> 0, ocrOf |-> 0, objects |-> <<>>]

\* `not image_data`: None and the empty string are falsy
Falsy(v) == v.kind = "absent" \/ (v.kind = "text" /\ v.s = <<>>)

\* `if not image_data` (lines 87, 138)
ImageMissing(b) == Falsy(b.image)
\* `if not img1_data and not img2_data`
FaceMissingBoth(b) == Falsy(b.image1) /\ Falsy(b.image2)
\* `if not img1_data or not img2_data` (line 112)
FaceMissing(b) == Falsy(b.image1) \/ Falsy(b.image2)

\* return jsonify(...), status
Return(q, status, payload, err) ==
    [q EXCEPT !.pc = "done", !.status = status, !.payload = payload, !.err = err,
              !.responses = @ + 1]

\* An exception that is reported as a success.
ExceptAsSuccess(q, e) == Return([q EXCEPT !.objects = <<>>], 200, "error", e)
\* except Exception as e: return jsonify({"error": str(e)}), 500; what the
\* handler had computed so far is dropped
Except(q, e) == Return([q EXCEPT !.objects = <<>>], 500, "error", e)

\* What a call into a model, or jsonify of its result, can do.
Outcomes == {"ok", "raise", "raise_json"}

(* ------------------------------ start-up ------------------------------ *)
\* reader = easyocr.Reader(...) (line 22): an exception here ends the import
LoadReader ==
    /\ phase = "boot"
    /\ \E ok \in BOOLEAN :
         IF ok
         THEN /\ phase' = "reader_loaded"
              /\ loads' = [loads EXCEPT !.reader = @ + 1]
         ELSE /\ phase' = "aborted"
              /\ UNCHANGED loads
    /\ UNCHANGED <<decodeVars, cropVars, tagVars, faceModel, req, yoloScratch, ocrScratch>>

\* A start-up that goes on without the detector.
LoadYoloLenient ==
    /\ phase = "reader_loaded"
    /\ \E ok \in BOOLEAN :
         /\ phase' = "models_loaded"
         /\ loads' = IF ok THEN [loads EXCEPT !.yolo = @ + 1] ELSE loads
    /\ UNCHANGED <<decodeVars, cropVars, tagVars, faceModel, req, yoloScratch, ocrScratch>>
\* yolo_model = YOLO('yolov8n.pt') (line 25)
LoadYolo ==
    /\ phase = "reader_loaded"
    /\ \E ok \in BOOLEAN :
         IF ok
         THEN /\ phase' = "models_loaded"
              /\ loads' = [loads EXCEPT !.yolo = @ + 1]
         ELSE /\ phase' = "aborted"
              /\ UNCHANGED loads
    /\ UNCHANGED <<decodeVars, cropVars, tagVars, faceModel, req, yoloScratch, ocrScratch>>

\* app.run(host='0.0.0.0', port=7860); DeepFace has loaded nothing yet
\* (lines 27-28)
Run ==
    /\ phase = "models_loaded"
    /\ phase' = "serving"
    /\ UNCHANGED <<decodeVars, cropVars, tagVars, loads, faceModel, req, yoloScratch, ocrScratch>>

\* A request arrives and is given to a thread that is free.
Receive(t) ==
    /\ phase = "serving"
    /\ req[t].pc \in {"idle", "done"}
    /\ loads.received < MaxRequests
    /\ \E route \in Routes : \E body \in BodiesOf(route) :
         req' = [req EXCEPT ![t] = [Idle EXCEPT !.route = route, !.body = body, !.pc = "handler"]]
    /\ loads' = [loads EXCEPT !.received = @ + 1]
    /\ UNCHANGED <<decodeVars, cropVars, tagVars, phase, faceModel, yoloScratch, ocrScratch>>

(* ---------------------------- /verify-cnic ---------------------------- *)
\* Lines 85-91, up to the detector call inside crop_card (line 53).
VerifyCnicStart(t) ==
    LET q == req[t]
        d == decode_image(q.body.image)
    IN  /\ q.pc = "handler" /\ q.route = "/verify-cnic"
        /\ IF ~q.body.json
           THEN /\ req' = [req EXCEPT ![t] = Except(q, "body")]
                /\ UNCHANGED yoloScratch
           ELSE IF ImageMissing(q.body)
           THEN /\ req' = [req EXCEPT ![t] = Return(q, 400, "error", "No image provided")]
                /\ UNCHANGED yoloScratch
           ELSE IF d.kind = "raise"
           THEN /\ req' = [req EXCEPT ![t] = Except([q EXCEPT !.decodes = @ + 1], d.err)]
                /\ UNCHANGED yoloScratch
           ELSE /\ req' = [req EXCEPT ![t] = [q EXCEPT !.decodes = @ + 1, !.img = d.kind,
                                                       !.invoked = @ \cup {"yolo"},
                                                       !.pc = "in_yolo"]]
                /\ yoloScratch' = t
        /\ UNCHANGED <<decodeVars, cropVars, tagVars, phase, loads, faceModel, ocrScratch>>

\* crop_card from the detector's answer on (lines 53-74), then the call of
\* reader.readtext (line 94).  With a None image, image.shape (line 67)
\* raises when a box was found.
VerifyCnicCrop(t) ==
    LET q == req[t]
    IN  /\ q.pc = "in_yolo" /\ q.route = "/verify-cnic"
        /\ \E o \in {"ok", "raise"} : \E found \in BOOLEAN :
             IF o = "raise" \/ (found /\ q.img = "none")
             THEN /\ req' = [req EXCEPT ![t] = Except(q, "detector")]
                  /\ UNCHANGED ocrScratch
             ELSE /\ req' = [req EXCEPT ![t] = [q EXCEPT !.detOf = yoloScratch,
                                                         !.invoked = @ \cup {"ocr"},
                                                         !.pc = "in_ocr"]]
                  /\ ocrScratch' = t
        /\ UNCHANGED <<decodeVars, cropVars, tagVars, phase, loads, faceModel, yoloScratch>>

\* reader.readtext returns or raises; jsonify({"raw_text": ...}) (lines 94-103)
VerifyCnicRespond(t) ==
    LET q == req[t]
    IN  /\ q.pc = "in_ocr" /\ q.route = "/verify-cnic"
        /\ \E o \in Outcomes :
             req' = [req EXCEPT ![t] =
                       IF o = "ok"
                       THEN Return([q EXCEPT !.ocrOf = ocrScratch], 200, "raw_text", "-")
                       ELSE Except(q, IF o = "raise" THEN "ocr" ELSE "jsonify")]
        /\ UNCHANGED <<decodeVars, cropVars, tagVars, phase, loads, faceModel, yoloScratch, ocrScratch>>

(* ---------------------------- /shop-verify ---------------------------- *)
\* Lines 136-144, up to the detector call.
ShopVerifyStart(t) ==
    LET q == req[t]
        d == decode_image(q.body.image)
    IN  /\ q.pc = "handler" /\ q.route = "/shop-verify"
        /\ IF ~q.body.json
           THEN /\ req' = [req EXCEPT ![t] = Except(q, "body")]
                /\ UNCHANGED yoloScratch
           ELSE IF ImageMissing(q.body)
           THEN /\ req' = [req EXCEPT ![t] = Return(q, 400, "error", "No image provided")]
                /\ UNCHANGED yoloScratch
           ELSE IF d.kind = "raise"
           THEN /\ req' = [req EXCEPT ![t] = Except([q EXCEPT !.decodes = @ + 1], d.err)]
                /\ UNCHANGED yoloScratch
           ELSE /\ req' = [req EXCEPT ![t] = [q EXCEPT !.decodes = @ + 1, !.img = d.kind,
                                                       !.invoked = @ \cup {"yolo"},
                                                       !.pc = "in_yolo"]]
                /\ yoloScratch' = t
        /\ UNCHANGED <<decodeVars, cropVars, tagVars, phase, loads, faceModel, ocrScratch>>

\* The detector returns or raises; the tagging loop (lines 145-152); the call
\* of reader.readtext (line 155).
ShopVerifyTag(t) ==
    LET q == req[t]
    IN  /\ q.pc = "in_yolo" /\ q.route = "/shop-verify"
        /\ \E o \in {"ok", "raise"} : \E dets \in HandlerDets :
             IF o = "raise"
             THEN /\ req' = [req EXCEPT ![t] = Except(q, "detector")]
                  /\ UNCHANGED ocrScratch
             ELSE /\ \E objs \in ListOfSet(TagLoop(dets, 1, <<>>)) :
                       req' = [req EXCEPT ![t] = [q EXCEPT !.detOf = yoloScratch,
                                                          !.objects = objs,
                                                          !.invoked = @ \cup {"ocr"},
                                                          !.pc = "in_ocr"]]
                  /\ ocrScratch' = t
        /\ UNCHANGED <<decodeVars, cropVars, tagVars, phase, loads, faceModel, yoloScratch>>

\* reader.readtext returns or raises; jsonify({"detected_objects": ...,
\* "text_content": ...}) (lines 155-162)
ShopVerifyRespond(t) ==
    LET q == req[t]
    IN  /\ q.pc = "in_ocr" /\ q.route = "/shop-verify"
        /\ \E o \in Outcomes :
             req' = [req EXCEPT ![t] =
                       IF o = "ok"
                       THEN Return([q EXCEPT !.ocrOf = ocrScratch], 200, "detected_objects", "-")
                       ELSE Except(q, IF o = "raise" THEN "ocr" ELSE "jsonify")]
        /\ UNCHANGED <<decodeVars, cropVars, tagVars, phase, loads, faceModel, yoloScratch, ocrScratch>>

(* ---------------------------- /face-verify ---------------------------- *)
\* Lines 108-119, up to the call of DeepFace.verify, which looks the model
\* up in DeepFace's cache.
FaceVerifyStart(t) ==
    LET q  == req[t]
        d1 == decode_image(q.body.image1)
        d2 == decode_image(q.body.image2)
    IN  /\ q.pc = "handler" /\ q.route = "/face-verify"
        /\ req' = [req EXCEPT ![t] =
              IF ~q.body.json THEN Except(q, "body")
              ELSE IF FaceMissing(q.body)
              THEN Return(q, 400, "error", "image1 and image2 required")
              ELSE IF d1.kind = "raise" THEN Except([q EXCEPT !.decodes = @ + 1], d1.err)
              ELSE IF d2.kind = "raise" THEN Except([q EXCEPT !.decodes = @ + 2], d2.err)
              ELSE [q EXCEPT !.decodes = @ + 2, !.img = d1.kind, !.img2 = d2.kind,
                             !.invoked = @ \cup {"face"},
                             !.pc = IF faceModel = "loaded" THEN "in_face" ELSE "face_load"]]
        /\ UNCHANGED <<decodeVars, cropVars, tagVars, phase, loads, faceModel, yoloScratch, ocrScratch>>

\* DeepFace.verify builds VGG-Face when its cache has none (the lazy load of
\* lines 27-28): the weights load, or the load raises inside the handler.
FaceVerifyLoad(t) ==
    LET q == req[t]
    IN  /\ q.pc = "face_load" /\ q.route = "/face-verify"
        /\ \E ok \in BOOLEAN :
             IF ok
             THEN /\ faceModel' = "loaded"
                  /\ loads' = [loads EXCEPT !.face = @ + 1]
                  /\ req' = [req EXCEPT ![t] = [q EXCEPT !.pc = "in_face"]]
             ELSE /\ req' = [req EXCEPT ![t] = Except(q, "face model load")]
                  /\ UNCHANGED <<faceModel, loads>>
        /\ UNCHANGED <<decodeVars, cropVars, tagVars, phase, yoloScratch, ocrScratch>>

\* DeepFace.verify returns or raises; jsonify of verified, distance,
\* threshold (lines 119-131)
FaceVerifyRespond(t) ==
    LET q == req[t]
    IN  /\ q.pc = "in_face" /\ q.route = "/face-verify"
        /\ \E o \in Outcomes :
             req' = [req EXCEPT ![t] =
                       IF o = "ok"
                       THEN Return(q, 200, "verified", "-")
                       ELSE Except(q, IF o = "raise" THEN "face" ELSE "jsonify")]
        /\ UNCHANGED <<decodeVars, cropVars, tagVars, phase, loads, faceModel, yoloScratch, ocrScratch>>

(***************************************************************************)
(* Specifications                                                          *)
(***************************************************************************)
DecodeIdle == dIn = Number /\ dPc = "off" /\ dOut = NoneValue /\ dPayload = NoStr
CropIdle   == /\ cImg = [w |-> 0, h |-> 0] /\ cBoxes = <<>> /\ cPc = "off"
              /\ cBest = <<>> /\ cRect = <<>> /\ cOut = [x |-> 0, y |-> 0, w |-> 0, h |-> 0]
TagIdle    == tDets = <<>> /\ tPc = "off" /\ tOut = <<>>
ServerIdle == /\ phase = "off" /\ loads = [reader |-> 0, yolo |-> 0, face |-> 0, received |-> 0]
              /\ faceModel = "unloaded" /\ req = [t \in Threads |-> Idle]
              /\ yoloScratch = 0 /\ ocrScratch = 0

InitDecode ==
    /\ dIn \in DecodeInputs /\ dPc = "call" /\ dOut = NoneValue /\ dPayload = NoStr
    /\ CropIdle /\ TagIdle /\ ServerIdle
NextDecode == DecodeCall
SpecDecode == InitDecode /\ [][NextDecode]_vars

InitCrop ==
    /\ cImg \in [w : ImgDims, h : ImgDims]
    /\ cBoxes \in SeqsUpTo(BoxesOf(cImg), MaxBoxes)
    /\ cPc = "call" /\ cBest = <<>> /\ cRect = <<>> /\ cOut = [x |-> 0, y |-> 0, w |-> 0, h |-> 0]
    /\ DecodeIdle /\ TagIdle /\ ServerIdle
NextCrop == CropCall
SpecCrop == InitCrop /\ [][NextCrop]_vars

InitTag ==
    /\ tDets \in SeqsUpTo(Detections, MaxDets) /\ tPc = "call" /\ tOut = <<>>
    /\ DecodeIdle /\ CropIdle /\ ServerIdle
NextTag == TagCall
SpecTag == InitTag /\ [][NextTag]_vars

Init ==
    /\ phase = "boot"
    /\ loads = [reader |-> 0, yolo |-> 0, face |-> 0, received |-> 0]
    /\ faceModel = "unloaded"
    /\ req = [t \in Threads |-> Idle]
    /\ yoloScratch = 0 /\ ocrScratch = 0
    /\ DecodeIdle /\ CropIdle /\ TagIdle

Next ==
    \/ LoadReader
    \/ LoadYolo
    \/ Run
    \/ \E t \in Threads : Receive(t)
    \/ \E t \in Threads : VerifyCnicStart(t)
    \/ \E t \in Threads : VerifyCnicCrop(t)
    \/ \E t \in Threads : VerifyCnicRespond(t)
    \/ \E t \in Threads : ShopVerifyStart(t)
    \/ \E t \in Threads : ShopVerifyTag(t)
    \/ \E t \in Threads : ShopVerifyRespond(t)
    \/ \E t \in Threads : FaceVerifyStart(t)
    \/ \E t \in Threads : FaceVerifyLoad(t)
    \/ \E t \in Threads : FaceVerifyRespond(t)

Spec == Init /\ [][Next]_vars

(***************************************************************************)
(* Properties                                                              *)
(***************************************************************************)
Handled(q) == q.pc # "idle"
Done(q)    == q.pc = "done"

\* A required field of the route is not in the JSON object.
RequiredAbsent(q) ==
    /\ q.body.json
    /\ IF q.route = "/face-verify"
       THEN q.body.image1.kind = "absent" \/ q.body.image2.kind = "absent"
       ELSE q.body.image.kind = "absent"

\* C1: a request whose JSON object lacks a required field is answered 400
\* with an error body, and at no point of its handling has an image been
\* decoded or a model been invoked, whatever the other field holds.
C1_MissingFieldIs400 ==
    \A t \in Threads :
        LET q == req[t]
        IN  (Handled(q) /\ RequiredAbsent(q)) =>
                /\ q.decodes = 0
                /\ q.invoked = {}
                /\ q.pc \in {"handler", "done"}
                /\ Done(q) => /\ q.status = 400
                              /\ q.payload = "error"
                              /\ q.err \in {"No image provided", "image1 and image2 required"}
                              /\ q.responses = 1

\* /face-verify without image1 and with an image2 that is no decodable
\* image has been answered 400.
C1_Witness ==
    \E t \in Threads :
        LET q == req[t]
        IN  /\ Done(q) /\ q.route = "/face-verify" /\ q.body.json
            /\ q.body.image1 = Absent /\ q.body.image2 = BadPadText
            /\ q.status = 400 /\ q.decodes = 0 /\ q.invoked = {}

\* The required image fields are all present (truthy) and at least one of
\* them does not decode to a pixel grid.
Undecodable(q) ==
    /\ q.body.json
    /\ IF q.route = "/face-verify"
       THEN /\ ~Falsy(q.body.image1) /\ ~Falsy(q.body.image2)
            /\ \/ decode_image(q.body.image1).kind # "grid"
               \/ decode_image(q.body.image2).kind # "grid"
       ELSE /\ ~Falsy(q.body.image)
            /\ decode_image(q.body.image).kind # "grid"

\* C2: a request whose image field is present but cannot be decoded as an
\* image is answered with a 4xx status, not a 5xx one.
C2_UndecodableIs4xx ==
    \A t \in Threads :
        LET q == req[t]
        IN  (Done(q) /\ Undecodable(q)) => q.status \in 400..499

SuccessPayload(route) ==
    IF route = "/verify-cnic" THEN "raw_text"
    ELSE IF route = "/face-verify" THEN "verified"
    ELSE "detected_objects"

MissingMessages == {"No image provided", "image1 and image2 required"}

\* The body cannot be read as a JSON object, or decode_image raises on a
\* field the handler decodes.
RaisesBeforeModels(q) ==
    \/ ~q.body.json
    \/ IF q.route = "/face-verify"
       THEN /\ ~Falsy(q.body.image1) /\ ~Falsy(q.body.image2)
            /\ \/ decode_image(q.body.image1).kind = "raise"
               \/ decode_image(q.body.image2).kind = "raise"
       ELSE /\ ~Falsy(q.body.image)
            /\ decode_image(q.body.image).kind = "raise"

\* C3: every request ends with at most one response; a failure while
\* reading the body, decoding, calling a model or building the response
\* gives status 500 and a body that holds the error alone; the statuses are
\* 200 (with the route's success payload), 400 and 500 (with the error
\* payload); and the server stays in service.
C3_FailuresAre500 ==
    /\ (\E t \in Threads : Handled(req[t])) => phase = "serving"
    /\ \A t \in Threads :
        LET q == req[t]
        IN  /\ q.status \in {0, 200, 400, 500}
            /\ q.responses = (IF Done(q) THEN 1 ELSE 0)
            /\ (q.status # 0) <=> Done(q)
            /\ q.status = 200 => q.payload = SuccessPayload(q.route) /\ q.err = "-"
            /\ q.status \in {400, 500} => q.payload = "error" /\ q.err # "-" /\ q.objects = <<>>
            /\ q.status = 400 => q.err \in MissingMessages
            /\ (Done(q) /\ q.err \notin MissingMessages \cup {"-"}) => q.status = 500
            /\ (Done(q) /\ RaisesBeforeModels(q)) => q.status = 500 /\ q.payload = "error"

\* A request failed while its response was built, was answered 500, and the
\* other thread is handling a request.
C3_Witness ==
    \E t \in Threads : \E u \in Threads \ {t} :
        /\ Done(req[t]) /\ req[t].err = "jsonify" /\ req[t].status = 500
        /\ req[u].pc \in {"in_yolo", "in_ocr", "in_face"}
        /\ phase = "serving"

\* C4: decode_image either raises "Invalid image input" or returns a pixel
\* grid with 3 channels and positive height and width; it never returns
\* anything else.
C4_RaisesOrGrid ==
    dPc = "done" =>
        \/ dOut.kind = "raise" /\ dOut.err = "Invalid image input"
        \/ dOut.kind = "grid" /\ dOut.channels = 3 /\ dOut.h > 0 /\ dOut.w > 0

\* C5: no two /shop-verify requests are inside the same model's inference
\* call at the same time, and what a /shop-verify response reports was
\* computed from that request's own image.
C5_ShopRequestsSerialized ==
    \A t \in Threads :
        LET q == req[t]
        IN  q.route = "/shop-verify" =>
              /\ \A u \in Threads \ {t} :
                    (req[u].route = "/shop-verify" /\ q.pc \in {"in_yolo", "in_ocr"})
                        => req[u].pc # q.pc
              /\ (Done(q) /\ q.status = 200) => q.detOf = t /\ q.ocrOf = t

\* Some detection of the label clears the threshold.
Cleared(dets, l) ==
    \E i \in DOMAIN dets : ClassName(dets[i].cls) = l /\ dets[i].conf > ConfThreshold

\* C6: detected_objects holds a label exactly when some detection of that
\* label has confidence above 0.4, and holds no label twice.
C6_TagsAboveThresholdOnce ==
    tPc = "done" =>
        /\ \A l \in Labels : (l \in ListToSet(tOut)) <=> Cleared(tDets, l)
        /\ ListToSet(tOut) \subseteq Labels
        /\ \A i \in DOMAIN tOut : \A j \in DOMAIN tOut : tOut[i] = tOut[j] => i = j

\* One label was detected twice above the threshold and is listed once;
\* another label's best confidence is exactly 0.4 and it is not listed.
C6_Witness ==
    /\ tPc = "done"
    /\ tOut = <<"person">>
    /\ Cardinality({i \in DOMAIN tDets : tDets[i].cls = 0 /\ tDets[i].conf > ConfThreshold}) = 2
    /\ \E i \in DOMAIN tDets : tDets[i].cls = 56 /\ tDets[i].conf = ConfThreshold

\* C7: the rectangle crop_card cuts with lies within the image, and the
\* sub-grid is not empty and covers the winning box.
C7_RectInsideImage ==
    (cPc = "done" /\ cRect # <<>>) =>
        LET r == cRect[1]
            b == cBoxes[cBest[1]]
        IN  /\ 0 <= r.x1 /\ r.x1 <= cImg.w /\ 0 <= r.x2 /\ r.x2 <= cImg.w
            /\ 0 <= r.y1 /\ r.y1 <= cImg.h /\ 0 <= r.y2 /\ r.y2 <= cImg.h
            /\ (b.x1 < b.x2 /\ b.y1 < b.y2 /\ 0 <= b.x1 /\ b.x2 <= 2 * cImg.w
                                           /\ 0 <= b.y1 /\ b.y2 <= 2 * cImg.h)
                 => /\ cOut.w > 0 /\ cOut.h > 0
                    /\ 2 * cOut.x <= b.x1 /\ b.x2 <= 2 * (cOut.x + cOut.w)
                    /\ 2 * cOut.y <= b.y1 /\ b.y2 <= 2 * (cOut.y + cOut.h)

\* The margin reached past the right and bottom edges and was clamped, and
\* did not reach the left edge.
C7_Witness ==
    /\ cPc = "done" /\ cRect # <<>>
    /\ LET r == cRect[1]
           b == IntBox(cBoxes[cBest[1]])
       IN  /\ b.x2 + Margin > cImg.w /\ r.x2 = cImg.w
           /\ b.y2 + Margin > cImg.h /\ r.y2 = cImg.h
           /\ r.x1 > 0

\* The reference: the pixel box grown by the margin and cut to the image.
RefGrid(b, img) ==
    LET lx == Max(0, Trunc(b.x1) - Margin)
        ly == Max(0, Trunc(b.y1) - Margin)
        hx == Min(img.w, Trunc(b.x2) + Margin)
        hy == Min(img.h, Trunc(b.y2) + Margin)
    IN  [x |-> lx, y |-> ly, w |-> hx - lx, h |-> hy - ly]

\* C9: with no boxes crop_card returns the image as it is; otherwise it
\* returns the sub-grid of a box of greatest area, grown by 10 pixels on
\* each side and cut to the image.
C9_CropIsReference ==
    cPc = "done" =>
        IF cBoxes = <<>>
        THEN cOut = [x |-> 0, y |-> 0, w |-> cImg.w, h |-> cImg.h]
        ELSE \E i \in DOMAIN cBoxes :
                /\ \A j \in DOMAIN cBoxes : Area(cBoxes[i]) >= Area(cBoxes[j])
                /\ cOut = RefGrid(cBoxes[i], cImg)

\* Two boxes, the second the larger, and a crop smaller than the image.
C9_Witness ==
    /\ cPc = "done" /\ Len(cBoxes) = 2
    /\ Area(cBoxes[2]) > Area(cBoxes[1])
    /\ cOut = RefGrid(cBoxes[2], cImg)
    /\ cOut # RefGrid(cBoxes[1], cImg)
    /\ cOut.w < cImg.w /\ cOut.h < cImg.h

AfterFirstComma(s) == SubSeq(s, NextComma(s, 1) + 1, Len(s))

\* C10: for a text with a comma the base64 payload is everything after the
\* first comma; for a text without one it is the whole text; for bytes
\* nothing is base64-decoded.
C10_PayloadAfterFirstComma ==
    dPc = "done" =>
        /\ dIn.kind = "text" =>
              dPayload = (IF HasComma(dIn.s) THEN AfterFirstComma(dIn.s) ELSE dIn.s)
        /\ dIn.kind = "bytes" => dPayload = NoStr /\ dOut = decode_image(Bytes(dIn.s))

====
